---- MODULE Spec2Model ----
(***************************************************************************)
(* A model of napari/layers/image/experimental/octree_chunk.py:            *)
(* OctreeLocation, OctreeChunkKey and the load-state machine of            *)
(* OctreeChunk (data setter, loading flag, in_memory, needs_load, clear).  *)
(*                                                                         *)
(* Python objects are modelled as references [type, id]: two references    *)
(* are the same object (`is`) exactly when they are equal here.  The       *)
(* mutations of one chunk are serialised (one synchronisation domain);     *)
(* the data setter is two field assignments, and the state between them    *)
(* is a state of the model, which is what a reader in another context      *)
(* can see.                                                                *)
(***************************************************************************)
EXTENDS Integers, Sequences, FiniteSets

\* ------------------------------------------------------------------ bounds

\* Number of distinct deferred (non-ndarray) array objects.
MaxDeferred == 2

\* Number of distinct in-memory np.ndarray objects.
MaxArrays == 2

\* Loads the loader can have enqueued at once.
MaxLoads == 2

\* Number of distinct layer objects a key can be built for.
MaxLayers == 2

\* hash() values are HashBits wide.
HashBits == 4

\* ------------------------------------------------------------------- state

VARIABLES
    chunk,      \* the OctreeChunk object
    pc,         \* "idle", or "data_setter_finish" inside the data setter
    ctor_data,  \* ghost: the data argument the constructor was given
    last,       \* ghost: the last operation started: [op, arg, raised]
    scenario,   \* ghost: steps of the lifecycle scenario done so far, -1 = off it
    null_loc,   \* result of the last OctreeLocation.create_null() call
    cached_key, \* the OctreeChunkKey a cache holds
    lookup,     \* ghost: what the last comparison of a new key with it gave
    other,      \* a second OctreeChunk, of the same image
    key_cmp,    \* ghost: what the last comparison of the two chunks' key gave
    outstanding, \* loads the loader has enqueued and not yet completed
    orphaned,   \* ghost: those of them enqueued before the last clear()
    before,     \* ghost: the load state before the last loader operation
    prev        \* ghost: the loader operation before the last: [op, before]

vars ==
    <<chunk, pc, ctor_data, last, scenario, null_loc, cached_key, lookup,
      other, key_cmp, outstanding, orphaned, before, prev>>

chunk_vars == <<chunk, pc, ctor_data, last, scenario>>

key_vars == <<cached_key, lookup>>

pair_vars == <<other, key_cmp>>

loader_vars == <<outstanding, orphaned, before, prev>>

\* What the operations of the one chunk never touch.
other_vars == <<pair_vars, loader_vars>>

\* ----------------------------------------------------------------- objects

DeferredRefs == {[type |-> "dask", id |-> i] : i \in 1..MaxDeferred}

ArrayRefs == {[type |-> "ndarray", id |-> i] : i \in 1..MaxArrays}

\* Every value the constructor or the data setter can be handed.
Refs == DeferredRefs \cup ArrayRefs

\* isinstance(x, np.ndarray)
isinstance_ndarray(x) == x.type = "ndarray"

\* ---------------------------------------------------------- OctreeLocation

\* The fields of the NamedTuple, in order.
OctreeLocation_fields == <<"slice_id", "level_index", "row", "col">>

\* cls(*args) of the NamedTuple: one positional argument per field, or a
\* TypeError when the count is wrong.
OctreeLocation_new(args) ==
    IF Len(args) = Len(OctreeLocation_fields)
    THEN [raised |-> "none",
          value |-> [slice_id |-> args[1], level_index |-> args[2],
                     row |-> args[3], col |-> args[4]]]
    ELSE [raised |-> "TypeError", value |-> <<>>]

\* np.zeros(0): an empty array.
np_zeros_0 == <<>>

\* OctreeLocation.create_null(): cls(0, 0, 0, 0, np.zeros(0), np.zeros(0)).
create_null == OctreeLocation_new(<<0, 0, 0, 0, np_zeros_0, np_zeros_0>>)

\* An OctreeLocation as the tuple it is.
OctreeLocation_tuple(l) == <<l.slice_id, l.level_index, l.row, l.col>>

\* Mutant: slice_id is not compared.
OctreeLocation_eq_no_slice(a, b) ==
    <<a.level_index, a.row, a.col>> = <<b.level_index, b.row, b.col>>

\* OctreeLocation.__eq__: the NamedTuple's, that is the tuples' equality.
OctreeLocation_eq(a, b) == OctreeLocation_tuple(a) = OctreeLocation_tuple(b)

\* The values of an OctreeLocation field: the fields are only compared and
\* hashed, so two values per field give every way two locations can differ.
Coords == {0, 1}

\* Every OctreeLocation the keys are built from.
Locations ==
    [slice_id : Coords, level_index : Coords, row : Coords, col : Coords]

\* ---------------------------------------------------------- OctreeChunkKey

\* id(layer) of the layers.
Layers == 1..MaxLayers

\* The indices tuples: one entry per dimension, 0 for None, 1 for a slice.
IndexTuples == {<<0, 0>>, <<0, 1>>}

HashModulus == 2 ^ HashBits

RECURSIVE hash_ints(_)
\* hash() of a tuple of integers, HashBits wide.
hash_ints(t) ==
    IF t = <<>> THEN 1
    ELSE (hash_ints(Tail(t)) * 3 + Head(t) + 1) % HashModulus

\* hash() of an OctreeLocation: the tuple hash of its four fields.
hash_location(l) == hash_ints(<<l.slice_id, l.level_index, l.row, l.col>>)

\* hash() of the tuple _get_hash_values() returns: the hashes of its entries
\* (the layer's id, the indices tuple, the location, then any further
\* integers), combined.
hash_values(v) ==
    hash_ints(<<v[1], hash_ints(v[2])>>
              \o (IF Len(v) >= 3 THEN <<hash_location(v[3])>> ELSE <<>>)
              \o SubSeq(v, 4, Len(v)))

\* ChunkKey._get_hash_values(): the layer's identity and the indices.
ChunkKey_get_hash_values(self) == <<self.layer, self.indices>>

\* Mutant: the load state of the chunk is one of the values.
OctreeChunkKey_get_hash_values_loading(self) ==
    ChunkKey_get_hash_values(self)
        \o <<self.location, IF chunk.loading THEN 1 ELSE 0>>

\* Mutant: the location is left out of the values.
OctreeChunkKey_get_hash_values_no_location(self) ==
    ChunkKey_get_hash_values(self)

\* OctreeChunkKey._get_hash_values(): parent + (self.location,)
OctreeChunkKey_get_hash_values(self) ==
    ChunkKey_get_hash_values(self) \o <<self.location>>

\* ChunkKey.__init__(layer, indices), run on the object under construction:
\* keeps the layer and indices and the values the key is compared by.
ChunkKey_init(self, layer, indices) ==
    LET s == [self EXCEPT !.layer = layer, !.indices = indices]
    IN  [s EXCEPT !.values = OctreeChunkKey_get_hash_values(s)]

Unset == "unset"

\* OctreeChunkKey.__init__(layer, indices, location): the location is set
\* first, then the parent's __init__ runs.
OctreeChunkKey_init(layer, indices, location) ==
    ChunkKey_init([location |-> location, layer |-> Unset,
                   indices |-> Unset, values |-> Unset],
                  layer, indices)

\* ChunkKey.__eq__
ChunkKey_eq(a, b) == a.values = b.values

\* ChunkKey.__hash__
ChunkKey_hash(a) == hash_values(a.values)

\* The location and geometry the modelled chunk is built with.
ChunkLocation == [slice_id |-> 1, level_index |-> 2, row |-> 0, col |-> 3]

ChunkGeom == [pos |-> <<3, 0>>, scale |-> <<4, 4>>]

\* The positions of a geometry with `dim` dimensions.
Positions(dim) ==
    IF dim = 2 THEN {<<x, y>> : x \in Coords, y \in Coords}
    ELSE {<<x, y, z>> : x \in Coords, y \in Coords, z \in Coords}

\* OctreeChunkGeom(pos, scale), the scale being one per dimension.
OctreeChunkGeom(pos) == [pos |-> pos, scale |-> [i \in 1..Len(pos) |-> 1]]

\* ------------------------------------------------------------- OctreeChunk

\* Mutant: a new chunk starts out as loading.
OctreeChunk_init_loading(data, location, geom) ==
    [data |-> data, orig_data |-> data, location |-> location,
     geom |-> geom, loading |-> TRUE]

\* OctreeChunk.__init__(data, location, geom)
OctreeChunk_init(data, location, geom) ==
    [data |-> data, orig_data |-> data, location |-> location,
     geom |-> geom, loading |-> FALSE]

\* OctreeChunk.key: (self.geom.pos[0], self.geom.pos[1],
\* self.location.level_index); Python's pos[0] is pos[1] here.
OctreeChunk_key(c) ==
    <<c.geom.pos[1], c.geom.pos[2], c.location.level_index>>

\* OctreeChunk.in_memory
in_memory(c) == isinstance_ndarray(c.data)

\* Mutant: the loading flag is not looked at.
needs_load_ignores_loading(c) == ~in_memory(c)

\* Mutant: `or` for `and`.
needs_load_or(c) == ~in_memory(c) \/ ~c.loading

\* OctreeChunk.needs_load
needs_load(c) == ~in_memory(c) /\ ~c.loading

\* chunk.loading = value, by the chunk's user.
set_loading(c, value) == [c EXCEPT !.loading = value]

\* Mutant: no check of the type.
data_setter_assert_none(data) == TRUE

\* The assert of the data setter: TRUE when it passes.
data_setter_assert(data) == isinstance_ndarray(data)

\* Mutant: data is taken only while the chunk is loading.
data_setter_assign_if_loading(c, data) ==
    IF c.loading THEN [c EXCEPT !.data = data] ELSE c

\* Mutant: the retained original is overwritten too.
data_setter_assign_orig(c, data) ==
    [c EXCEPT !.data = data, !.orig_data = data]

\* self._data = data
data_setter_assign(c, data) == [c EXCEPT !.data = data]

\* Mutant: the loading flag is not cleared.
data_setter_finish_keeps_loading(c) == c

\* self.loading = False
data_setter_finish(c) == [c EXCEPT !.loading = FALSE]

\* Mutant: the loading flag is not reset.
clear_keeps_loading(c) == [c EXCEPT !.data = c.orig_data]

\* Mutant: the location is reset with the data.
clear_resets_location(c) ==
    [c EXCEPT !.data = c.orig_data, !.loading = FALSE,
              !.location = [slice_id |-> 0, level_index |-> 0,
                            row |-> 0, col |-> 0]]

\* Mutant: the original data is not restored.
clear_keeps_data(c) == [c EXCEPT !.loading = FALSE]

\* OctreeChunk.clear()
clear(c) == [c EXCEPT !.data = c.orig_data, !.loading = FALSE]

NotCalled == [raised |-> "not called", value |-> <<>>]

NotLooked ==
    [called |-> FALSE, same_triple |-> FALSE, only_location |-> FALSE,
     equal |-> FALSE, same_hash |-> FALSE]

\* A chunk built from `data`.
InitChunk(data) ==
    /\ chunk = OctreeChunk_init(data, ChunkLocation, ChunkGeom)
    /\ ctor_data = data
    /\ scenario = IF isinstance_ndarray(data) THEN -1 ELSE 0
    /\ pc = "idle"
    /\ last = [op |-> "__init__", arg |-> FALSE, raised |-> "none"]
    /\ null_loc = NotCalled

\* A cache holding the key built from (layer, indices, location).
InitKey(layer, indices, location) ==
    /\ cached_key = OctreeChunkKey_init(layer, indices, location)
    /\ lookup = NotLooked

NotCompared ==
    [called |-> FALSE, equal |-> FALSE, same_level |-> FALSE,
     same_pos |-> FALSE]

\* The second chunk, and no comparison made yet.
InitPair(location, geom) ==
    /\ other = OctreeChunk_init(CHOOSE d \in DeferredRefs : d.id = 1,
                                location, geom)
    /\ key_cmp = NotCompared

\* A loader that has enqueued nothing yet.
InitLoader ==
    /\ outstanding = 0
    /\ orphaned = 0
    /\ before = "none"
    /\ prev = [op |-> "none", before |-> "none"]

Init ==
    /\ \E data \in Refs : InitChunk(data)
    /\ InitKey(1, <<0, 0>>, ChunkLocation)
    /\ InitPair(ChunkLocation, ChunkGeom)
    /\ InitLoader

\* chunk.loading = value
SetLoading(value) ==
    /\ pc = "idle"
    /\ chunk' = set_loading(chunk, value)
    /\ last' = [op |-> "loading", arg |-> value, raised |-> "none"]
    /\ scenario' = IF scenario = 0 /\ value THEN 1 ELSE -1
    /\ UNCHANGED <<pc, ctor_data, null_loc, key_vars, other_vars>>

\* chunk.data = data, where the assert fails: AssertionError.
DataSetterReject(data) ==
    /\ pc = "idle"
    /\ ~data_setter_assert(data)
    /\ last' = [op |-> "data", arg |-> data, raised |-> "AssertionError"]
    /\ scenario' = -1
    /\ UNCHANGED <<chunk, pc, ctor_data, null_loc, key_vars, other_vars>>

\* chunk.data = data: the assert passes and self._data is assigned.
DataSetterAssign(data) ==
    /\ pc = "idle"
    /\ data_setter_assert(data)
    /\ chunk' = data_setter_assign(chunk, data)
    /\ pc' = "data_setter_finish"
    /\ last' = [op |-> "data", arg |-> data, raised |-> "none"]
    /\ scenario' = IF scenario = 1 THEN 1 ELSE -1
    /\ UNCHANGED <<ctor_data, null_loc, key_vars, other_vars>>

\* The rest of the data setter: self.loading = False, and return.
DataSetterFinish ==
    /\ pc = "data_setter_finish"
    /\ chunk' = data_setter_finish(chunk)
    /\ pc' = "idle"
    /\ scenario' = IF scenario = 1 THEN 2 ELSE -1
    /\ UNCHANGED <<ctor_data, last, null_loc, key_vars, other_vars>>

\* chunk.clear()
Clear ==
    /\ pc = "idle"
    /\ chunk' = clear(chunk)
    /\ last' = [op |-> "clear", arg |-> FALSE, raised |-> "none"]
    /\ scenario' = IF scenario = 2 THEN 3 ELSE -1
    /\ UNCHANGED <<pc, ctor_data, null_loc, key_vars, other_vars>>

\* OctreeLocation.create_null()
CreateNull ==
    /\ null_loc' = create_null
    /\ UNCHANGED <<chunk_vars, key_vars, other_vars>>

Next ==
    \/ \E value \in BOOLEAN : SetLoading(value)
    \/ \E data \in Refs : DataSetterReject(data)
    \/ \E data \in Refs : DataSetterAssign(data)
    \/ DataSetterFinish
    \/ Clear
    \/ CreateNull

Spec == Init /\ [][Next]_vars

\* ------------------------------------------------- the keys, as a cache uses them

\* A new key is built from (layer, indices, location) and compared with the
\* cached one, by == and by hash().
Lookup(layer, indices, location) ==
    LET k == OctreeChunkKey_init(layer, indices, location)
    IN  /\ lookup' =
              [called |-> TRUE,
               same_triple |-> /\ layer = cached_key.layer
                               /\ indices = cached_key.indices
                               /\ location = cached_key.location,
               only_location |-> /\ layer = cached_key.layer
                                 /\ indices = cached_key.indices
                                 /\ location # cached_key.location,
               equal |-> ChunkKey_eq(k, cached_key),
               same_hash |-> ChunkKey_hash(k) = ChunkKey_hash(cached_key)]
        /\ UNCHANGED <<chunk_vars, null_loc, cached_key, pair_vars, loader_vars>>

InitKeys ==
    /\ InitChunk(CHOOSE d \in DeferredRefs : d.id = 1)
    /\ \E layer \in Layers, indices \in IndexTuples, location \in Locations :
         InitKey(layer, indices, location)
    /\ InitPair(ChunkLocation, ChunkGeom)
    /\ InitLoader

NextKeys ==
    \/ \E value \in BOOLEAN : SetLoading(value)
    \/ \E data \in Refs : DataSetterAssign(data)
    \/ DataSetterFinish
    \/ Clear
    \/ \E layer \in Layers, indices \in IndexTuples, location \in Locations :
         Lookup(layer, indices, location)

SpecKeys == InitKeys /\ [][NextKeys]_vars

\* ------------------------------------------- two chunks and their key property

\* The key of the two chunks is compared.
CompareKeys ==
    /\ key_cmp' =
          [called |-> TRUE,
           equal |-> OctreeChunk_key(chunk) = OctreeChunk_key(other),
           same_level |-> chunk.location.level_index
                            = other.location.level_index,
           same_pos |-> chunk.geom.pos = other.geom.pos]
    /\ UNCHANGED <<chunk_vars, null_loc, key_vars, other, loader_vars>>

\* Two chunks of one image, 2D or 3D, each at some position and level.
InitGeom ==
    /\ \E dim \in {2, 3} :
         \E p1 \in Positions(dim), p2 \in Positions(dim),
            l1 \in Coords, l2 \in Coords :
            /\ chunk = OctreeChunk_init(
                           CHOOSE d \in DeferredRefs : d.id = 1,
                           [ChunkLocation EXCEPT !.level_index = l1],
                           OctreeChunkGeom(p1))
            /\ InitPair([ChunkLocation EXCEPT !.level_index = l2],
                        OctreeChunkGeom(p2))
    /\ ctor_data = chunk.data
    /\ scenario = 0
    /\ pc = "idle"
    /\ last = [op |-> "__init__", arg |-> FALSE, raised |-> "none"]
    /\ null_loc = NotCalled
    /\ InitKey(1, <<0, 0>>, ChunkLocation)
    /\ InitLoader

NextGeom ==
    \/ \E value \in BOOLEAN : SetLoading(value)
    \/ \E data \in Refs : DataSetterAssign(data)
    \/ DataSetterFinish
    \/ Clear
    \/ CompareKeys

SpecGeom == InitGeom /\ [][NextGeom]_vars

\* --------------------------------------------- the chunk, as a loader uses it

\* The state of the load-state machine a chunk is in.
LoadState(c) ==
    IF in_memory(c)
    THEN IF c.loading THEN "LOADED+loading" ELSE "LOADED"
    ELSE IF c.loading THEN "LOADING" ELSE "UNLOADED"

\* The loader's record of the operation it starts now.
Record ==
    /\ before' = LoadState(chunk)
    /\ prev' = [op |-> last.op, before |-> before]

\* The scheduler enqueues a load, only for a chunk that needs one, and marks
\* the chunk as loading in the same step.
Enqueue ==
    /\ pc = "idle"
    /\ needs_load(chunk)
    /\ outstanding < MaxLoads
    /\ chunk' = set_loading(chunk, TRUE)
    /\ outstanding' = outstanding + 1
    /\ last' = [op |-> "loading", arg |-> TRUE, raised |-> "none"]
    /\ scenario' = IF scenario = 0 THEN 1 ELSE -1
    /\ Record
    /\ UNCHANGED <<pc, ctor_data, null_loc, key_vars, pair_vars, orphaned>>

\* A load completes, one enqueued before the last clear() (`orphan`) or
\* after it, and the loader assigns its ndarray: chunk.data = data, up to
\* and including self._data = data.
Complete(data, orphan) ==
    /\ pc = "idle"
    /\ IF orphan THEN orphaned > 0 ELSE outstanding > orphaned
    /\ outstanding' = outstanding - 1
    /\ orphaned' = IF orphan THEN orphaned - 1 ELSE orphaned
    /\ IF data_setter_assert(data)
       THEN /\ chunk' = data_setter_assign(chunk, data)
            /\ pc' = "data_setter_finish"
            /\ last' = [op |-> "data", arg |-> data, raised |-> "none"]
       ELSE /\ last' = [op |-> "data", arg |-> data,
                        raised |-> "AssertionError"]
            /\ UNCHANGED <<chunk, pc>>
    /\ scenario' = IF scenario = 1 THEN 1 ELSE -1
    /\ Record
    /\ UNCHANGED <<ctor_data, null_loc, key_vars, pair_vars>>

\* chunk.clear(), by the loader: the loads still outstanding are not
\* cancelled.
LoaderClear ==
    /\ pc = "idle"
    /\ chunk' = clear(chunk)
    /\ orphaned' = outstanding
    /\ last' = [op |-> "clear", arg |-> FALSE, raised |-> "none"]
    /\ scenario' = IF scenario = 2 THEN 3 ELSE -1
    /\ Record
    /\ UNCHANGED <<pc, ctor_data, null_loc, key_vars, pair_vars, outstanding>>

InitLoads ==
    /\ \E data \in Refs : InitChunk(data)
    /\ InitKey(1, <<0, 0>>, ChunkLocation)
    /\ InitPair(ChunkLocation, ChunkGeom)
    /\ InitLoader

NextLoads ==
    \/ Enqueue
    \/ \E data \in ArrayRefs, orphan \in BOOLEAN : Complete(data, orphan)
    \/ DataSetterFinish
    \/ LoaderClear

SpecLoads == InitLoads /\ [][NextLoads]_vars

\* ------------------------------------------------------------------ claims

\* in_memory and loading are both true, between two operations.
BothTrue == pc = "idle" /\ in_memory(chunk) /\ chunk.loading

\* The last operation was a data assignment that has returned normally.
DataAssigned == pc = "idle" /\ last.op = "data" /\ last.raised = "none"

\* C1, as stated: between operations, in_memory implies not loading, after
\* any sequence of construction, assignments of the loading flag, data
\* assignments and clear().
C1_Original == pc = "idle" => (in_memory(chunk) => ~chunk.loading)

\* C1, amended: in_memory implies not loading right after construction,
\* after a data assignment has returned and after clear(); between
\* operations the two become both true only by an assignment loading = True
\* to a chunk whose data is already an ndarray.
C1_InMemoryNotLoading ==
    /\ [](last.op = "__init__" \/ last.op = "clear" \/ DataAssigned
             => ~BothTrue)
    /\ [][~BothTrue /\ BothTrue'
             => /\ last' = [op |-> "loading", arg |-> TRUE, raised |-> "none"]
                /\ in_memory(chunk)
                /\ chunk'.data = chunk.data]_vars

C1_Witness ==
    /\ DataAssigned
    /\ scenario = 2
    /\ in_memory(chunk)
    /\ ~chunk.loading

\* C2, as stated: no state a reader can see while the data setter runs has
\* the new data without loading being false.
C2_Original == pc = "data_setter_finish" => ~chunk.loading

\* C2, amended: the data setter first makes the new data visible with the
\* loading flag as it was, and only then clears the flag; when it returns,
\* in_memory is true, loading is false and data is the assigned value.
C2_TwoSteps ==
    [][/\ pc = "idle" /\ pc' = "data_setter_finish"
            => /\ chunk'.data = last'.arg
               /\ in_memory(chunk')
               /\ chunk'.loading = chunk.loading
       /\ pc = "data_setter_finish" /\ pc' = "idle"
            => /\ chunk'.data = last'.arg
               /\ in_memory(chunk')
               /\ ~chunk'.loading]_vars

C2_Witness ==
    /\ pc = "data_setter_finish"
    /\ in_memory(chunk)
    /\ chunk.loading
    /\ ~isinstance_ndarray(ctor_data)

\* C3: a data assignment of a value that is not an ndarray raises
\* AssertionError and leaves the chunk (data, loading and the rest) as it was.
C3_RejectNonArray ==
    [][last'.op = "data" /\ ~isinstance_ndarray(last'.arg)
         => /\ last'.raised = "AssertionError"
            /\ chunk' = chunk
            /\ pc' = "idle"]_vars

C3_Witness ==
    /\ last.op = "data"
    /\ last.raised = "AssertionError"
    /\ last.arg # chunk.data
    /\ chunk.loading

\* C4: needs_load is true when in_memory and loading are both false, and
\* false in the three other combinations.
C4_NeedsLoad ==
    LET m == in_memory(chunk)
        l == chunk.loading
        n == needs_load(chunk)
    IN  /\ ~m /\ ~l => n
        /\ ~m /\ l => ~n
        /\ m /\ ~l => ~n
        /\ m /\ l => ~n

C4_Witness ==
    /\ ~in_memory(chunk)
    /\ chunk.loading
    /\ ~needs_load(chunk)
    /\ last.op = "loading"

\* C5: after clear(), data is the object the constructor was given and
\* loading is false.
C5_ClearRestores ==
    last.op = "clear" => chunk.data = ctor_data /\ chunk.loading = FALSE

C5_Witness ==
    /\ last.op = "clear"
    /\ scenario = 3
    /\ chunk.data = ctor_data
    /\ chunk.orig_data = ctor_data

\* C6, as stated: after clear(), in_memory is false and needs_load is true,
\* whatever the chunk was constructed with.
C6_Original == last.op = "clear" => ~in_memory(chunk) /\ needs_load(chunk)

\* C6, amended: after clear(), in_memory is what it was at construction:
\* false, with needs_load true, for a chunk constructed with data that is
\* not an ndarray, and true for a chunk constructed with an ndarray.
C6_ClearInMemory ==
    last.op = "clear"
        => /\ in_memory(chunk) = isinstance_ndarray(ctor_data)
           /\ needs_load(chunk) = ~isinstance_ndarray(ctor_data)

C6_Witness ==
    /\ last.op = "clear"
    /\ isinstance_ndarray(ctor_data)
    /\ in_memory(chunk)
    /\ ~needs_load(chunk)

\* C7: a chunk constructed with deferred data D needs a load; after
\* loading = True it neither needs a load nor is in memory; after the ndarray
\* M is then assigned it is in memory, not loading, and its data is M; after
\* clear() its data is D again and it is neither in memory nor loading.
C7_Lifecycle ==
    /\ scenario = 0 => needs_load(chunk)
    /\ scenario = 1 /\ pc = "idle" => ~needs_load(chunk) /\ ~in_memory(chunk)
    /\ scenario = 2
         => /\ in_memory(chunk)
            /\ ~chunk.loading
            /\ chunk.data = last.arg
            /\ isinstance_ndarray(last.arg)
    /\ scenario = 3
         => /\ chunk.data = ctor_data
            /\ ~in_memory(chunk)
            /\ ~chunk.loading

C7_Witness ==
    /\ scenario = 3
    /\ needs_load(chunk)
    /\ ~isinstance_ndarray(ctor_data)

\* The null location: every field zero.
NullLocation == [slice_id |-> 0, level_index |-> 0, row |-> 0, col |-> 0]

\* C8: create_null() returns a location whose every field is zero.
C8_CreateNull ==
    null_loc # NotCalled
        => null_loc.raised = "none" /\ null_loc.value = NullLocation

\* A new key built, in the current state, from what the cached key was
\* built from.
SameKey ==
    OctreeChunkKey_init(cached_key.layer, cached_key.indices,
                        cached_key.location)

\* C9: a key built from the same (layer, indices, location) as the cached
\* key equals it and has its hash, whatever the chunk's loading flag and
\* data are when it is built.
C9_KeyIdentity ==
    /\ lookup.called /\ lookup.same_triple
         => lookup.equal /\ lookup.same_hash
    /\ ChunkKey_eq(SameKey, cached_key)
    /\ ChunkKey_hash(SameKey) = ChunkKey_hash(cached_key)

C9_Witness ==
    /\ lookup.called
    /\ lookup.same_triple
    /\ lookup.equal
    /\ lookup.same_hash
    /\ chunk.loading
    /\ in_memory(chunk)

\* C10: a key built from a (layer, indices, location) that differs from the
\* cached key's in some component is not equal to it.
C10_KeyDistinct ==
    lookup.called /\ ~lookup.same_triple => ~lookup.equal

C10_Witness ==
    /\ lookup.called
    /\ lookup.only_location
    /\ ~lookup.equal
    /\ lookup.same_hash

\* C11: two chunks whose key is equal have the same level_index and the
\* same geometry position, in every component, for 2D and for 3D positions.
C11_KeyConsistent ==
    key_cmp.called /\ key_cmp.equal
        => key_cmp.same_level /\ key_cmp.same_pos

\* C12: two OctreeLocations are equal exactly when their four fields match,
\* and equal locations have equal hashes.
C12_LocationEquality ==
    \A l \in Locations :
        LET c == cached_key.location
        IN  /\ OctreeLocation_eq(l, c)
                 <=> /\ l.slice_id = c.slice_id
                     /\ l.level_index = c.level_index
                     /\ l.row = c.row
                     /\ l.col = c.col
            /\ OctreeLocation_eq(l, c) => hash_location(l) = hash_location(c)

C12_Witness ==
    /\ lookup.called
    /\ \E l \in Locations :
         /\ ~OctreeLocation_eq(l, cached_key.location)
         /\ l.slice_id # cached_key.location.slice_id
         /\ hash_location(l) = hash_location(cached_key.location)
    /\ \E l \in Locations :
         /\ OctreeLocation_eq(l, cached_key.location)
         /\ hash_location(l) = hash_location(cached_key.location)

\* C13: a data assignment, clear() and an assignment of the loading flag
\* leave the chunk's location, geom and key as they were, and a data
\* assignment and an assignment of the loading flag leave the retained
\* original data as it was.
C13_Frame ==
    [][/\ chunk'.location = chunk.location
       /\ chunk'.geom = chunk.geom
       /\ OctreeChunk_key(chunk') = OctreeChunk_key(chunk)
       /\ last'.op \in {"data", "loading"}
            => chunk'.orig_data = chunk.orig_data]_vars

C13_Witness ==
    /\ scenario = 3
    /\ last.op = "clear"
    /\ Len(chunk.geom.pos) = 3
    /\ chunk.location.level_index = 1
    /\ chunk.orig_data = ctor_data

\* The chunk is in LOADING: its data is deferred and its flag is set.
Loading == ~in_memory(chunk) /\ chunk.loading

\* C14: the constructor, the data setter and clear() each leave loading
\* false; loading becomes true only by an assignment loading = True from
\* outside.
C14_OnlyExternalSetsLoading ==
    /\ [](last.op = "__init__" => ~chunk.loading)
    /\ [](last.op = "clear" => ~chunk.loading)
    /\ [](DataAssigned => ~chunk.loading)
    /\ [][~chunk.loading /\ chunk'.loading
             => /\ last' = [op |-> "loading", arg |-> TRUE, raised |-> "none"]
                /\ chunk' = [chunk EXCEPT !.loading = TRUE]]_vars

C14_Witness ==
    /\ chunk.loading
    /\ last = [op |-> "loading", arg |-> TRUE, raised |-> "none"]
    /\ in_memory(chunk)
    /\ ~isinstance_ndarray(ctor_data)

\* C15: a chunk in LOADING does not need a load, and it leaves LOADING only
\* by a data assignment that is accepted, by clear() or by an assignment
\* loading = False; no other step, a rejected assignment included, takes it
\* out of LOADING.
C15_LoadingStays ==
    /\ [](Loading => ~needs_load(chunk))
    /\ [][Loading /\ ~Loading'
             => \/ /\ last'.op = "data"
                   /\ last'.raised = "none"
                   /\ pc' = "data_setter_finish"
                \/ last'.op = "clear"
                \/ last' = [op |-> "loading", arg |-> FALSE,
                            raised |-> "none"]]_vars

C15_Witness ==
    /\ Loading
    /\ ~needs_load(chunk)
    /\ last.op = "data"
    /\ last.raised = "AssertionError"

\* C16: the data setter takes an ndarray M in every load state, and when it
\* has returned data is M, in_memory is true and loading is false; so for a
\* load that completes after clear() on a LOADING chunk.
C16_AcceptedInEveryState ==
    /\ last.op = "data" => last.raised = "none"
    /\ DataAssigned
         => /\ chunk.data = last.arg
            /\ in_memory(chunk)
            /\ ~chunk.loading
            /\ LoadState(chunk) = "LOADED"

C16_Witness ==
    /\ DataAssigned
    /\ before = "UNLOADED"
    /\ prev = [op |-> "clear", before |-> "LOADING"]
    /\ LoadState(chunk) = "LOADED"

\* C17, as stated: at most one load is outstanding, for every interleaving
\* of enqueue, completion and clear().
C17_Original == outstanding <= 1

\* C17, amended: at most one load enqueued since the last clear() is
\* outstanding, and between operations a chunk that is loading has exactly
\* one; the loads outstanding when clear() was called stay outstanding.
C17_OneLoadSinceClear ==
    /\ outstanding - orphaned <= 1
    /\ orphaned <= outstanding
    /\ pc = "idle" /\ chunk.loading => outstanding - orphaned = 1

C17_Witness ==
    /\ outstanding = 2
    /\ orphaned = 1
    /\ chunk.loading
    /\ last.op = "loading"

====
